---- MODULE Spec2Model ----
(***************************************************************************)
(* Model of the controller window of meerk40t (LhystudiosControllerGui),   *)
(* the window console commands of wxMeerK40t, and the controller they      *)
(* observe and drive.                                                      *)
(*                                                                         *)
(* The GUI handlers are translated from src/meerk40t/gui.  The controller  *)
(* and the kernel (signal delivery, command dispatch, the packet counters) *)
(* are not part of the sources at hand; where the model needs them they    *)
(* are written from the specification and marked as such.                  *)
(***************************************************************************)
EXTENDS Integers, Sequences, FiniteSets, TLC

\* ----------------------------------------------------------------- bounds
\* Largest buffer depth a "pipe;buffer" event carries in the model.
MaxDepth == 5
\* Largest number of packets sent / rejected in the model.
MaxPackets == 10
\* Largest number of calls waiting in wx.CallAfter's queue in the model.
MaxPending == 1
\* Largest number of events published on the bus in the model.
MaxEvents == 2
\* Largest reading of perf_counter() in the model, in quarters of a second.
MaxTime == 4
\* Largest translation of the point node's matrix along an axis in the model.
MaxCoord == 2
\* Largest number of revalidate_points calls on one node in the model.
MaxCalls == 3

\* ------------------------------------------------------- program constants
\* self.buffer_max = 1 in __init__.
InitBufferMax == 1

VARIABLES
    \* --- LhystudiosControllerGui: buffer display
    buffer_max,          \* self.buffer_max
    gui_update,          \* self.gui_update
    listening,           \* the handlers are registered (window_open .. window_close)
    text_buffer_length,  \* text of the widget self.text_buffer_length, <<>> before any SetValue
    gauge_buffer,        \* <<range, value>> of the widget self.gauge_buffer, <<>> before any Set
    raised,              \* exception that left the last handler or command, "none" if it returned
    \* --- history of the buffer events delivered to on_buffer_update
    buffer_updated,      \* some buffer event was delivered
    buffer_value,        \* depth carried by the last buffer event
    largest_value,       \* largest depth carried by any buffer event so far
    largest_live,        \* largest depth carried by an event delivered while gui_update
    \* --- packet statistics
    packet_count,        \* context.packet_count
    rejected_count,      \* context.rejected_count
    packet_count_text,   \* widget packet_count_text
    rejected_packet_count_text, \* widget rejected_packet_count_text
    text_byte,           \* widgets text_byte_0 .. text_byte_5
    text_desc,           \* widget text_desc
    sent_calls,          \* number of record_sent calls so far
    rejected_calls,      \* number of record_rejected calls so far
    status_shown,        \* update_status ran after the last counter change
    \* --- the controller (driver side)
    connection_state,    \* ConnectionState of the controller
    control_state,       \* ControlState of the controller
    attempt,             \* who started the connection attempt under way: "none", "button", "console"
    mock,                \* context.mock, a setting the kernel keeps between sessions
    active,              \* a controller is attached to the session (an active device)
    \* --- the kernel
    last_signal_state,   \* context.last_signal("pipe;state"), "None" before any
    last_signal_thread,  \* context.last_signal("pipe;thread"), "None" before any
    thread_events,       \* control states the last step published on "pipe;thread", in order
    issued,              \* commands the last step passed to context(...), in order
    reply,               \* how the last command was answered
    caller,              \* who passed them: "button" (a widget), "console", "none"
    was_busy,            \* history: the controller was Busy when the last step began
    \* --- LhystudiosControllerGui: connection and controller buttons
    button_device_connect,      \* [label, enabled] of the connect button
    checkbox_mock_usb,          \* value of the checkbox "Mock USB Connection Mode"
    last_control_state,         \* self.last_control_state
    text_controller_status,     \* widget text_controller_status
    button_controller_control,  \* [label, enabled, action] of the controller button
    dialog,                     \* the "Connection Refused" dialog was shown by the last step
    \* --- window console commands
    opened,              \* names of the opened windows (path.opened)
    call_after,          \* calls handed to wx.CallAfter and not yet run by the main loop
    ran_on,              \* thread the last window operation ran on: "none", "main", "caller"
    \* --- the event bus (context.listen / unlisten / signal)
    subscribers,         \* topic -> handlers subscribed to it, in subscription order
    published,           \* the events published so far, [topic, payload], in publish order
    in_publish,          \* a publish call has not returned yet
    pending,             \* invocations [handler, id] the publish under way still has to make
    delivered,           \* invocations [handler, error] made for the event published last
    last_received,       \* handler -> number (in published) of the last event it was invoked for
    \* --- the kernel's window sections (console command "window reset")
    persistent,          \* windows whose section "window/<name>" holds persistent settings
    contexts,            \* windows whose section is in kernel.contexts (an open context)
    \* --- GoPanel
    was_mouse,           \* self.was_mouse
    click_time,          \* self.click_time
    now,                 \* perf_counter(), in quarters of a second
    button_go,           \* self.button_go.Enabled
    spooling,            \* on_button_go_click is inside context("plan ... spool")
    mouse_since_job,     \* history: a mouse-down arrived since the last job was spooled
    \* --- PointNode
    point,               \* self.point, <<x, y>>
    matrix,              \* self.matrix, a translation <<tx, ty>>
    bounds_dirty,        \* self._bounds_dirty
    node_bounds,         \* self._bounds, <<>> for None
    points,              \* self._points
    revalidated,         \* history: revalidate_points ran since the bounds last changed
    \* --- history of the control-state notifications
    repeat_seen          \* the window got a notification of the state it had handled last

bufVars == <<buffer_max, gui_update, text_buffer_length, gauge_buffer,
             buffer_updated, buffer_value, largest_value, largest_live>>
statVars == <<packet_count, rejected_count, packet_count_text,
              rejected_packet_count_text, text_byte, text_desc,
              sent_calls, rejected_calls, status_shown>>
ctlVars == <<connection_state, control_state, attempt, mock, active, last_signal_state,
             last_signal_thread>>
outVars == <<issued, reply, caller, was_busy, dialog>>
winVars == <<opened, call_after, ran_on>>
guiVars == <<button_device_connect, checkbox_mock_usb, last_control_state, text_controller_status,
             button_controller_control>>
busVars == <<subscribers, published, in_publish, pending, delivered, last_received>>
resetVars == <<persistent, contexts>>
goVars == <<was_mouse, click_time, now, button_go, spooling, mouse_since_job>>
nodeVars == <<point, matrix, bounds_dirty, node_bounds, points, revalidated>>
vars == <<bufVars, statVars, ctlVars, guiVars, outVars, winVars, listening, raised,
          thread_events, busVars, resetVars, goVars, nodeVars, repeat_seen>>

\* ----------------------------------------------------------------- helpers
Max(a, b) == IF a >= b THEN a ELSE b
Min(a, b) == IF a <= b THEN a ELSE b

\* Python str() of a non-negative int: its decimal digits, most significant first.
RECURSIVE Str(_)
Str(n) == IF n < 10 THEN <<n>> ELSE Append(Str(n \div 10), n % 10)

\* ------------------------------------------------------------ state names
\* The controller itself is not among the sources; its states are the ones the
\* window reacts to, its transitions follow the specification's table.
Uninitialized == "STATE_UNINITIALIZED"
Connecting == "STATE_CONNECTING"
Connected == "STATE_USB_CONNECTED"
Disconnecting == "STATE_USB_SET_DISCONNECTING"
Disconnected == "STATE_USB_DISCONNECTED"
ConnectionFailed == "STATE_CONNECTION_FAILED"
NoBackend == "STATE_DRIVER_NO_BACKEND"
Mock == "STATE_DRIVER_MOCK"
ConnectionStates == {Uninitialized, Connecting, Connected, Disconnecting,
                     Disconnected, ConnectionFailed, NoBackend, Mock}

STATE_INITIALIZE == "STATE_INITIALIZE"
STATE_IDLE == "STATE_IDLE"
STATE_BUSY == "STATE_BUSY"
STATE_WAIT == "STATE_WAIT"
STATE_PAUSE == "STATE_PAUSE"
STATE_ACTIVE == "STATE_ACTIVE"
STATE_TERMINATE == "STATE_TERMINATE"
STATE_END == "STATE_END"
ControlStates == {STATE_INITIALIZE, STATE_IDLE, STATE_BUSY, STATE_WAIT,
                  STATE_PAUSE, STATE_ACTIVE, STATE_TERMINATE, STATE_END}

\* A step in which the controller publishes nothing.
NoEvents == thread_events' = <<>>

\* A step of the controller window, the controller or the bus leaves the
\* kernel's window sections, the Go pane and the point node alone.
Apart == UNCHANGED <<resetVars, goVars, nodeVars, repeat_seen>>

\* A step that passes no command to context(...) and raises nothing.
Quiet ==
    /\ issued' = <<>>
    /\ reply' = "none"
    /\ caller' = "none"
    /\ was_busy' = (control_state = STATE_BUSY)
    /\ dialog' = FALSE
    /\ raised' = "none"

\* ------------------------------------------------------------ buffer display
\* __init__ creates the widgets it names; text_buffer_length and gauge_buffer
\* are not among them, so reading either attribute raises AttributeError.
HasBufferWidgets == FALSE

Depths == 0..MaxDepth

InitBuffer ==
    /\ buffer_max = InitBufferMax
    /\ gui_update = TRUE
    /\ text_buffer_length = <<>>
    /\ gauge_buffer = <<>>
    /\ buffer_updated = FALSE
    /\ buffer_value = 0
    /\ largest_value = 0
    /\ largest_live = 0

\* Mutants of RaiseMax: the maximum is overwritten by every event; never raised.
RaiseMax_Assign(max, value) == value
RaiseMax_Never(max, value) == max

\* if value > self.buffer_max: self.buffer_max = value
RaiseMax(max, value) == IF value > max THEN value ELSE max

\* The topics of the bus in the model, two of the six the window listens to.
Topics == {"pipe;status", "pipe;buffer"}

\* context.listen(topic, handler): the handler is added after the ones subscribed.
Listen(subs, topic, handler) ==
    [subs EXCEPT ![topic] = Append(@, handler)]

\* context.unlisten(topic, handler): the handler is taken out.
Unlisten(subs, topic, handler) ==
    [subs EXCEPT ![topic] = SelectSeq(@, LAMBDA h : h # handler)]

\* def window_open(self): registers the six listeners.
window_open ==
    /\ ~listening
    /\ gui_update
    /\ ~in_publish
    /\ listening' = TRUE
    /\ subscribers' = Listen(Listen(subscribers, "pipe;status", "window"),
                             "pipe;buffer", "window")
    /\ Quiet
    /\ NoEvents
    /\ Apart
    /\ UNCHANGED <<bufVars, statVars, ctlVars, guiVars, winVars,
                   published, in_publish, pending, delivered, last_received>>

\* Mutant of window_close: the "pipe;buffer" listener is left registered.
window_close_KeepsBuffer ==
    /\ listening
    /\ ~in_publish
    /\ gui_update' = FALSE
    /\ listening' = FALSE
    /\ subscribers' = Unlisten(subscribers, "pipe;status", "window")
    /\ Quiet
    /\ NoEvents
    /\ Apart
    /\ UNCHANGED <<buffer_max, text_buffer_length, gauge_buffer, buffer_updated,
                   buffer_value, largest_value, largest_live, statVars,
                   ctlVars, guiVars, winVars,
                   published, in_publish, pending, delivered, last_received>>

\* def window_close(self): gui_update = False, then unregisters the listeners.
window_close ==
    /\ listening
    /\ ~in_publish
    /\ gui_update' = FALSE
    /\ listening' = FALSE
    /\ subscribers' = Unlisten(Unlisten(subscribers, "pipe;status", "window"),
                               "pipe;buffer", "window")
    /\ Quiet
    /\ NoEvents
    /\ Apart
    /\ UNCHANGED <<buffer_max, text_buffer_length, gauge_buffer, buffer_updated,
                   buffer_value, largest_value, largest_live, statVars,
                   ctlVars, guiVars, winVars,
                   published, in_publish, pending, delivered, last_received>>

\* def on_buffer_update(self, origin, value, *args).
\* The kernel delivers "pipe;buffer" to a registered handler; an event already
\* on its way when window_close ran still arrives, which gui_update guards.
on_buffer_update(value) ==
    /\ listening \/ ~gui_update
    /\ buffer_updated' = TRUE
    /\ buffer_value' = value
    /\ largest_value' = Max(largest_value, value)
    /\ IF gui_update
         THEN /\ buffer_max' = RaiseMax(buffer_max, value)
              /\ largest_live' = Max(largest_live, value)
              /\ IF HasBufferWidgets
                   THEN /\ text_buffer_length' = Str(value)
                        /\ gauge_buffer' = <<buffer_max', Min(value, buffer_max')>>
                        /\ raised' = "none"
                   ELSE /\ raised' = "AttributeError"
                        /\ UNCHANGED <<text_buffer_length, gauge_buffer>>
         ELSE /\ raised' = "none"
              /\ UNCHANGED <<buffer_max, largest_live, text_buffer_length, gauge_buffer>>
    /\ NoEvents
    /\ Apart
    /\ UNCHANGED <<gui_update, listening, statVars, ctlVars, guiVars, outVars, winVars>>

BufferEvent ==
    /\ \E value \in Depths : on_buffer_update(value)
    /\ UNCHANGED busVars

\* ---------------------------------------------------------- packet statistics
InitStats ==
    /\ packet_count = 0
    /\ rejected_count = 0
    /\ packet_count_text = <<>>
    /\ rejected_packet_count_text = <<>>
    /\ text_byte = <<>>
    /\ text_desc = ""
    /\ sent_calls = 0
    /\ rejected_calls = 0
    /\ status_shown = FALSE

\* status_data of a "pipe;status" event: None, an int code, a six byte packet
\* or a packet of another length.
StatusValues == {0, 1}
StatusData ==
    {[kind |-> "None", code |-> 0, bytes |-> <<>>]}
    \cup {[kind |-> "int", code |-> b, bytes |-> <<>>] : b \in StatusValues}
    \cup {[kind |-> "bytes", code |-> 0, bytes |-> [i \in 1..6 |-> b]] : b \in StatusValues}
    \cup {[kind |-> "bytes", code |-> 0, bytes |-> <<b>>] : b \in StatusValues}
CodeStrings == {"OK", "BUSY"}

\* record_sent(): the controller counts a packet it sent.
record_sent ==
    /\ sent_calls < MaxPackets
    /\ packet_count' = packet_count + 1
    /\ sent_calls' = sent_calls + 1
    /\ status_shown' = FALSE
    /\ NoEvents
    /\ Apart
    /\ UNCHANGED <<rejected_count, rejected_calls, packet_count_text,
                   rejected_packet_count_text, text_byte, text_desc,
                   bufVars, ctlVars, guiVars, outVars, winVars, listening, raised,
                   busVars>>

\* record_rejected(): the controller counts a packet the device rejected.
record_rejected ==
    /\ rejected_calls < MaxPackets
    /\ rejected_count' = rejected_count + 1
    /\ rejected_calls' = rejected_calls + 1
    /\ status_shown' = FALSE
    /\ NoEvents
    /\ Apart
    /\ UNCHANGED <<packet_count, sent_calls, packet_count_text,
                   rejected_packet_count_text, text_byte, text_desc,
                   bufVars, ctlVars, guiVars, outVars, winVars, listening, raised,
                   busVars>>

\* Mutant of ShownCounts: the two counters land in each other's widget.
ShownCounts_Swapped(sent, rejected) == [sent |-> Str(rejected), rejected |-> Str(sent)]

\* The two counters as update_status writes them to the widgets:
\* packet_count_text.SetValue(str(context.packet_count)) and
\* rejected_packet_count_text.SetValue(str(context.rejected_count)).
ShownCounts(sent, rejected) == [sent |-> Str(sent), rejected |-> Str(rejected)]

\* def update_status(self, origin, status_data, code_string).
update_status(status_data, code_string) ==
    /\ listening
    /\ IF status_data.kind = "None"
         THEN UNCHANGED <<text_byte, text_desc>>
         ELSE IF status_data.kind = "int"
           THEN /\ text_desc' = code_string
                /\ UNCHANGED text_byte
           ELSE IF Len(status_data.bytes) = 6
             THEN /\ text_byte' = [i \in 1..6 |-> Str(status_data.bytes[i])]
                  /\ text_desc' = code_string
             ELSE UNCHANGED <<text_byte, text_desc>>
    /\ packet_count_text' = ShownCounts(packet_count, rejected_count).sent
    /\ rejected_packet_count_text' = ShownCounts(packet_count, rejected_count).rejected
    /\ status_shown' = TRUE
    /\ raised' = "none"
    /\ NoEvents
    /\ Apart
    /\ UNCHANGED <<packet_count, rejected_count, sent_calls, rejected_calls,
                   bufVars, ctlVars, guiVars, outVars, winVars, listening>>

StatusEvent ==
    /\ \E d \in StatusData, c \in CodeStrings : update_status(d, c)
    /\ UNCHANGED busVars

\* ------------------------------------------------------------- the controller
\* The command names the controller consumes.
ControllerCommands == {"usb_connect", "usb_disconnect", "pause", "resume",
                       "start", "hold", "abort", "estop", "control Wait Abort"}

InitController ==
    /\ connection_state = Uninitialized
    /\ control_state = STATE_INITIALIZE
    /\ attempt = "none"
    /\ mock \in BOOLEAN
    /\ active \in BOOLEAN
    /\ last_signal_state = "None"
    /\ last_signal_thread = "None"

\* Busy is a hard lock for every command but abort / estop.
BusyLocks(cmd) == cmd \notin {"abort", "estop"}

\* ConnectionState rows of the transition table.
ConnectionTarget(cs, cmd) ==
    IF cmd = "usb_connect" /\ cs \in {Uninitialized, Disconnected, ConnectionFailed}
      THEN Connecting
    ELSE IF cmd = "usb_disconnect" /\ cs = Connected
      THEN Disconnecting
    ELSE cs

\* ControlState rows of the transition table: the states a command may lead to.
ControlTargets(ks, cmd) ==
    IF ks = STATE_BUSY
      THEN IF BusyLocks(cmd) THEN {ks} ELSE {STATE_TERMINATE, STATE_IDLE}
    ELSE IF cmd = "start" /\ ks \in {STATE_INITIALIZE, STATE_END, STATE_IDLE}
      THEN {STATE_ACTIVE}
    ELSE IF cmd \in {"hold", "pause"} /\ ks = STATE_ACTIVE
      THEN {STATE_PAUSE}
    ELSE IF cmd = "resume" /\ ks = STATE_PAUSE
      THEN {STATE_ACTIVE}
    ELSE IF cmd \in {"abort", "estop", "control Wait Abort"} /\ ks = STATE_WAIT
      THEN {STATE_TERMINATE, STATE_IDLE}
    ELSE IF cmd \in {"abort", "estop"} /\ ks = STATE_TERMINATE
      THEN {STATE_IDLE}
    ELSE {ks}

\* How the controller answers a command: "ignored" under the busy lock, "ok"
\* when it made a transition, "noop" when the command does not apply.
Answer(cs, ks, cmd, cs2, ks2) ==
    IF ks = STATE_BUSY /\ BusyLocks(cmd) THEN "ignored"
    ELSE IF cs2 # cs \/ ks2 # ks THEN "ok"
    ELSE "noop"

\* The outcomes of one command: <<connection state, control state>> pairs.
Outcomes(cs, ks, cmd) ==
    IF ks = STATE_BUSY /\ BusyLocks(cmd)
      THEN {<<cs, ks>>}
      ELSE {<<ConnectionTarget(cs, cmd), k>> : k \in ControlTargets(ks, cmd)}

\* ------------------------------------------- the window's reaction to signals
InitGui ==
    /\ button_device_connect = [label |-> "Connection", enabled |-> TRUE]
    /\ checkbox_mock_usb = FALSE
    /\ last_control_state = "None"
    /\ text_controller_status = ""
    /\ button_controller_control =
           [label |-> "Start Controller", enabled |-> TRUE,
            action |-> "on_button_start_controller"]

\* Mutant of on_connection_state_change: the button stays enabled while
\* Connecting.
on_connection_state_change_ConnectingEnabled(button, state) ==
    IF state \in {ConnectionFailed, NoBackend}
      THEN [label |-> "usb_status", enabled |-> TRUE]
    ELSE IF state \in {Uninitialized, Disconnected}
      THEN [label |-> "Connect", enabled |-> TRUE]
    ELSE IF state = Disconnecting
      THEN [label |-> "Disconnecting...", enabled |-> FALSE]
    ELSE IF state \in {Connected, "STATE_CONNECTED"}
      THEN [label |-> "Disconnect", enabled |-> TRUE]
    ELSE IF state = Connecting
      THEN [label |-> "Connecting...", enabled |-> TRUE]
    ELSE button

\* Mutant of on_connection_state_change: the branch of the failed states is
\* missing, the button is left as Connecting had it.
on_connection_state_change_NoFailure(button, state) ==
    IF state \in {Uninitialized, Disconnected}
      THEN [label |-> "Connect", enabled |-> TRUE]
    ELSE IF state = Disconnecting
      THEN [label |-> "Disconnecting...", enabled |-> FALSE]
    ELSE IF state \in {Connected, "STATE_CONNECTED"}
      THEN [label |-> "Disconnect", enabled |-> TRUE]
    ELSE IF state = Connecting
      THEN [label |-> "Connecting...", enabled |-> FALSE]
    ELSE button

\* Mutant of on_connection_state_change: Disconnecting is shown like Disconnected.
on_connection_state_change_NoTeardown(button, state) ==
    IF state \in {ConnectionFailed, NoBackend}
      THEN [label |-> "usb_status", enabled |-> TRUE]
    ELSE IF state \in {Uninitialized, Disconnected, Disconnecting}
      THEN [label |-> "Connect", enabled |-> TRUE]
    ELSE IF state \in {Connected, "STATE_CONNECTED"}
      THEN [label |-> "Disconnect", enabled |-> TRUE]
    ELSE IF state = Connecting
      THEN [label |-> "Connecting...", enabled |-> FALSE]
    ELSE button

\* def on_connection_state_change(self, origin, state): the connect button after it.
\* The label of a failed state is the last "pipe;usb_status" text.
on_connection_state_change(button, state) ==
    IF state \in {ConnectionFailed, NoBackend}
      THEN [label |-> "usb_status", enabled |-> TRUE]
    ELSE IF state \in {Uninitialized, Disconnected}
      THEN [label |-> "Connect", enabled |-> TRUE]
    ELSE IF state = Disconnecting
      THEN [label |-> "Disconnecting...", enabled |-> FALSE]
    ELSE IF state \in {Connected, "STATE_CONNECTED"}
      THEN [label |-> "Disconnect", enabled |-> TRUE]
    ELSE IF state = Connecting
      THEN [label |-> "Connecting...", enabled |-> FALSE]
    ELSE button

\* Mutant of on_control_state: the function bound in Pause issues hold again.
on_control_state_PauseHolds(g, state) ==
    IF g.last = state THEN g
    ELSE LET button ==
               IF state \in {STATE_INITIALIZE, STATE_END, STATE_IDLE}
                 THEN [label |-> "Hold Controller", enabled |-> TRUE, action |-> "start hold"]
               ELSE IF state = STATE_BUSY
                 THEN [label |-> "LOCKED", enabled |-> FALSE, action |-> g.button.action]
               ELSE IF state = STATE_WAIT
                 THEN [label |-> "Force Continue", enabled |-> TRUE, action |-> "control Wait Abort"]
               ELSE IF state = STATE_PAUSE
                 THEN [label |-> "Resume Controller", enabled |-> TRUE, action |-> "hold"]
               ELSE IF state = STATE_ACTIVE
                 THEN [label |-> "Pause Controller", enabled |-> TRUE, action |-> "hold"]
               ELSE IF state = STATE_TERMINATE
                 THEN [label |-> "Manual Reset", enabled |-> TRUE, action |-> "abort"]
               ELSE g.button
         IN [last |-> state, text |-> state, button |-> button]

\* Mutant of on_control_state: a repeated state makes the handler forget the
\* state it handled last.
on_control_state_Forgets(g, state) ==
    IF g.last = state THEN [g EXCEPT !.last = "None"]
    ELSE LET button ==
               IF state \in {STATE_INITIALIZE, STATE_END, STATE_IDLE}
                 THEN [label |-> "Hold Controller", enabled |-> TRUE, action |-> "start hold"]
               ELSE IF state = STATE_BUSY
                 THEN [label |-> "LOCKED", enabled |-> FALSE, action |-> g.button.action]
               ELSE IF state = STATE_WAIT
                 THEN [label |-> "Force Continue", enabled |-> TRUE, action |-> "control Wait Abort"]
               ELSE IF state = STATE_PAUSE
                 THEN [label |-> "Resume Controller", enabled |-> TRUE, action |-> "resume"]
               ELSE IF state = STATE_ACTIVE
                 THEN [label |-> "Pause Controller", enabled |-> TRUE, action |-> "hold"]
               ELSE IF state = STATE_TERMINATE
                 THEN [label |-> "Manual Reset", enabled |-> TRUE, action |-> "abort"]
               ELSE g.button
         IN [last |-> state, text |-> state, button |-> button]

\* Mutant of on_control_state: Busy relabels the button and leaves it enabled.
on_control_state_BusyUnlocked(g, state) ==
    IF g.last = state THEN g
    ELSE LET button ==
               IF state \in {STATE_INITIALIZE, STATE_END, STATE_IDLE}
                 THEN [label |-> "Hold Controller", enabled |-> TRUE, action |-> "start hold"]
               ELSE IF state = STATE_BUSY
                 THEN [label |-> "LOCKED", enabled |-> TRUE, action |-> g.button.action]
               ELSE IF state = STATE_WAIT
                 THEN [label |-> "Force Continue", enabled |-> TRUE, action |-> "control Wait Abort"]
               ELSE IF state = STATE_PAUSE
                 THEN [label |-> "Resume Controller", enabled |-> TRUE, action |-> "resume"]
               ELSE IF state = STATE_ACTIVE
                 THEN [label |-> "Pause Controller", enabled |-> TRUE, action |-> "hold"]
               ELSE IF state = STATE_TERMINATE
                 THEN [label |-> "Manual Reset", enabled |-> TRUE, action |-> "abort"]
               ELSE g.button
         IN [last |-> state, text |-> state, button |-> button]

\* def on_control_state(self, origin, state): last_control_state, the status
\* text and the controller button after it.  g is [last, text, button]; the
\* text is the kernel's name for the state, kept here as the state itself.
on_control_state(g, state) ==
    IF g.last = state THEN g
    ELSE LET button ==
               IF state \in {STATE_INITIALIZE, STATE_END, STATE_IDLE}
                 THEN [label |-> "Hold Controller", enabled |-> TRUE, action |-> "start hold"]
               ELSE IF state = STATE_BUSY
                 THEN [label |-> "LOCKED", enabled |-> FALSE, action |-> g.button.action]
               ELSE IF state = STATE_WAIT
                 THEN [label |-> "Force Continue", enabled |-> TRUE, action |-> "control Wait Abort"]
               ELSE IF state = STATE_PAUSE
                 THEN [label |-> "Resume Controller", enabled |-> TRUE, action |-> "resume"]
               ELSE IF state = STATE_ACTIVE
                 THEN [label |-> "Pause Controller", enabled |-> TRUE, action |-> "hold"]
               ELSE IF state = STATE_TERMINATE
                 THEN [label |-> "Manual Reset", enabled |-> TRUE, action |-> "abort"]
               ELSE g.button
         IN [last |-> state, text |-> state, button |-> button]

\* Mutant of BoundCommands: the function bound in Initialize / End / Idle
\* issues hold before start.
BoundCommands_HoldFirst(action) ==
    IF action = "start hold" THEN <<"hold", "start">>
    ELSE IF action = "on_button_start_controller" THEN <<>>
    ELSE <<action>>

\* The commands the function bound to the controller button passes to context(...).
BoundCommands(action) ==
    IF action = "start hold" THEN <<"start", "hold">>
    ELSE IF action = "on_button_start_controller" THEN <<>>
    ELSE <<action>>

\* Mutant of ConnectCommands: a failed connection is not retried.
ConnectCommands_NoRetry(state) ==
    IF state \in {Disconnected, Uninitialized, Mock, "None"}
      THEN <<"usb_connect">>
    ELSE IF state \in {"STATE_CONNECTED", Connected}
      THEN <<"usb_disconnect">>
    ELSE <<>>

\* Mutant of ConnectCommands: NoBackend is retried like a failed connection.
ConnectCommands_RetryNoBackend(state) ==
    IF state \in {Disconnected, Uninitialized, ConnectionFailed, Mock, NoBackend, "None"}
      THEN <<"usb_connect">>
    ELSE IF state \in {"STATE_CONNECTED", Connected}
      THEN <<"usb_disconnect">>
    ELSE <<>>

\* Mutant of ConnectCommands: a connect is issued whatever the state.
ConnectCommands_Always(state) == <<"usb_connect">>

\* def on_button_start_usb(self, event): the command it issues for the last
\* signalled connection state ("None" when nothing was signalled yet).
ConnectCommands(state) ==
    IF state \in {Disconnected, Uninitialized, ConnectionFailed, Mock, "None"}
      THEN <<"usb_connect">>
    ELSE IF state \in {"STATE_CONNECTED", Connected}
      THEN <<"usb_disconnect">>
    ELSE <<>>

\* ------------------------------------------------- commands and their signals
\* The runs of a command sequence: for each command the <<connection state,
\* control state>> the controller is in after it.
RECURSIVE Runs(_, _, _)
Runs(cs, ks, cmds) ==
    IF cmds = <<>> THEN {<<>>}
    ELSE UNION {{<<o>> \o r : r \in Runs(o[1], o[2], Tail(cmds))} :
                    o \in Outcomes(cs, ks, Head(cmds))}

\* Mutant of Publish: the control state is published after every command or
\* feedback, changed or not.
Publish_Republishes(w, cs, ks, cs2, ks2) ==
    [signal |-> IF cs2 # cs THEN cs2 ELSE w.signal,
     thread |-> ks2,
     events |-> Append(w.events, ks2),
     connect |-> IF cs2 # cs /\ listening
                   THEN on_connection_state_change(w.connect, cs2) ELSE w.connect,
     control |-> IF listening
                   THEN on_control_state(w.control, ks2) ELSE w.control]

\* Every transition publishes the new state, and only a transition does:
\* "pipe;state" and "pipe;thread" are remembered by the kernel (last_signal)
\* and reach the window's handlers while the window listens.  w is
\* [signal, thread, events, connect, control].
Publish(w, cs, ks, cs2, ks2) ==
    [signal |-> IF cs2 # cs THEN cs2 ELSE w.signal,
     thread |-> IF ks2 # ks THEN ks2 ELSE w.thread,
     events |-> IF ks2 # ks THEN Append(w.events, ks2) ELSE w.events,
     connect |-> IF cs2 # cs /\ listening
                   THEN on_connection_state_change(w.connect, cs2) ELSE w.connect,
     control |-> IF ks2 # ks /\ listening
                   THEN on_control_state(w.control, ks2) ELSE w.control]

RECURSIVE PublishRun(_, _, _, _)
PublishRun(w, cs, ks, run) ==
    IF run = <<>> THEN w
    ELSE PublishRun(Publish(w, cs, ks, Head(run)[1], Head(run)[2]),
                    Head(run)[1], Head(run)[2], Tail(run))

Observed ==
    [signal |-> last_signal_state,
     thread |-> last_signal_thread,
     events |-> <<>>,
     connect |-> button_device_connect,
     control |-> [last |-> last_control_state, text |-> text_controller_status,
                  button |-> button_controller_control]]

\* The controller moves along run (one entry per command or feedback) and the
\* window follows the published states.
Follow(run) ==
    LET w == PublishRun(Observed, connection_state, control_state, run)
        end == IF run = <<>> THEN <<connection_state, control_state>>
               ELSE run[Len(run)]
    IN /\ connection_state' = end[1]
       /\ control_state' = end[2]
       /\ last_signal_state' = w.signal
       /\ last_signal_thread' = w.thread
       /\ thread_events' = w.events
       /\ button_device_connect' = w.connect
       /\ UNCHANGED checkbox_mock_usb
       /\ last_control_state' = w.control.last
       /\ text_controller_status' = w.control.text
       /\ button_controller_control' = w.control.button

\* context(cmds): the commands go to the active controller one after the
\* other; who is the caller ("button", "console").
Execute(cmds, who) ==
    \E run \in Runs(connection_state, control_state, cmds) :
        /\ active
        /\ Follow(run)
        /\ Apart
        /\ issued' = cmds
        /\ caller' = who
        /\ was_busy' = (control_state = STATE_BUSY)
        /\ reply' = IF cmds = <<>> THEN "none"
                    ELSE LET n == Len(cmds)
                             before == IF n = 1 THEN <<connection_state, control_state>>
                                       ELSE run[n - 1]
                         IN Answer(before[1], before[2], cmds[n], run[n][1], run[n][2])
        /\ attempt' = IF connection_state # Connecting /\ connection_state' = Connecting
                        THEN who ELSE attempt
        /\ dialog' = FALSE
        /\ raised' = "none"

\* context(cmds) with no active controller: the command finds no controller to
\* act on and AttributeError leaves context(...).  A caller that wraps the call
\* in try / except AttributeError: pass swallows it, any other caller lets it go.
NoController(cmds, who, swallows) ==
    /\ ~active
    /\ issued' = cmds
    /\ caller' = who
    /\ was_busy' = (control_state = STATE_BUSY)
    /\ reply' = IF swallows THEN "noop" ELSE "AttributeError"
    /\ raised' = IF swallows THEN "none" ELSE "AttributeError"
    /\ dialog' = FALSE
    /\ NoEvents
    /\ Apart
    /\ UNCHANGED <<connection_state, control_state, attempt, last_signal_state,
                   last_signal_thread, guiVars>>

\* A pause / estop request of the operator, with or without a controller.
Request(cmds, who, swallows) ==
    \/ Execute(cmds, who)
    \/ NoController(cmds, who, swallows)

\* ---------------------------------------------------------- operator actions
\* Mutant of on_button_start_usb: the click acts on the label the button shows
\* instead of on the last signalled state.
on_button_start_usb_ByLabel ==
    /\ listening
    /\ button_device_connect.enabled
    /\ Execute(IF button_device_connect.label = "Disconnect"
                 THEN <<"usb_disconnect">> ELSE <<"usb_connect">>, "button")
    /\ UNCHANGED <<mock, active, bufVars, statVars, winVars, listening, busVars>>

\* def on_button_start_usb(self, event): a click on the connect button.
on_button_start_usb ==
    /\ listening
    /\ button_device_connect.enabled
    /\ Execute(ConnectCommands(last_signal_state), "button")
    /\ UNCHANGED <<mock, active, bufVars, statVars, winVars, listening, busVars>>

\* A click on the controller button runs the function on_control_state bound.
controller_button_click ==
    /\ listening
    /\ button_controller_control.enabled
    /\ Execute(BoundCommands(button_controller_control.action), "button")
    /\ UNCHANGED <<mock, active, bufVars, statVars, winVars, listening, busVars>>

\* def on_menu_pause(self, event): try: context("pause\n") except AttributeError: pass.
on_menu_pause ==
    /\ listening
    /\ Request(<<"pause">>, "button", TRUE)
    /\ UNCHANGED <<mock, active, bufVars, statVars, winVars, listening, busVars>>

\* Mutant of on_menu_stop: the Stop menu respects the busy lock.
on_menu_stop_BusyLocked ==
    /\ listening
    /\ control_state # STATE_BUSY
    /\ Request(<<"estop">>, "button", TRUE)
    /\ UNCHANGED <<mock, active, bufVars, statVars, winVars, listening, busVars>>

\* def on_menu_stop(self, event): try: context("estop\n") except AttributeError: pass.
on_menu_stop ==
    /\ listening
    /\ Request(<<"estop">>, "button", TRUE)
    /\ UNCHANGED <<mock, active, bufVars, statVars, winVars, listening, busVars>>

\* register_panel_stop: the Stop pane's action, context("estop\n"), called
\* by ActionPanel.on_button_go_click with no try around it.
panel_stop ==
    /\ Request(<<"estop">>, "button", FALSE)
    /\ UNCHANGED <<mock, active, bufVars, statVars, winVars, listening, busVars>>

\* register_panel_pause: the Pause pane's action, context("pause\n"), called
\* by ActionPanel.on_button_go_click with no try around it.
panel_pause ==
    /\ Request(<<"pause">>, "button", FALSE)
    /\ UNCHANGED <<mock, active, bufVars, statVars, winVars, listening, busVars>>

\* Mutant of on_check_mock_usb: the handler also resets the connection state
\* itself.
on_check_mock_usb_ResetsState ==
    /\ listening
    /\ checkbox_mock_usb' = ~checkbox_mock_usb
    /\ mock' = checkbox_mock_usb'
    /\ connection_state' = Uninitialized
    /\ Quiet
    /\ NoEvents
    /\ Apart
    /\ UNCHANGED <<control_state, attempt, active, last_signal_state,
                   last_signal_thread,
                   button_device_connect, last_control_state, text_controller_status,
                   button_controller_control, bufVars, statVars, winVars, listening, busVars>>

\* def on_check_mock_usb(self, event): context.mock = checkbox value.
on_check_mock_usb ==
    /\ listening
    /\ checkbox_mock_usb' = ~checkbox_mock_usb
    /\ mock' = checkbox_mock_usb'
    /\ Quiet
    /\ NoEvents
    /\ Apart
    /\ UNCHANGED <<connection_state, control_state, attempt, active, last_signal_state,
                   last_signal_thread,
                   button_device_connect, last_control_state, text_controller_status,
                   button_controller_control, bufVars, statVars, winVars, listening, busVars>>

\* A controller command typed at the console.
console_command(cmd) ==
    /\ Execute(<<cmd>>, "console")
    /\ UNCHANGED <<mock, active, bufVars, statVars, winVars, listening, busVars>>

ConsoleCommand == \E cmd \in ControllerCommands : console_command(cmd)

\* A command name the dispatcher does not know: CommandSyntaxError at once, the
\* state machine is not reached.
dispatch_unknown ==
    /\ issued' = <<"unknown_cmd">>
    /\ caller' = "console"
    /\ was_busy' = (control_state = STATE_BUSY)
    /\ reply' = "CommandSyntaxError"
    /\ raised' = "CommandSyntaxError"
    /\ dialog' = FALSE
    /\ NoEvents
    /\ Apart
    /\ UNCHANGED <<ctlVars, guiVars, bufVars, statVars, winVars, listening, busVars>>

\* ---------------------------------------------------------- hardware feedback
\* The controller moves to <<cs, ks>> on its own and publishes the new state.
Feedback(cs, ks) ==
    /\ active
    /\ Follow(<< <<cs, ks>> >>)
    /\ Apart
    /\ attempt' = IF cs = Connecting THEN attempt ELSE "none"
    /\ UNCHANGED <<mock, active, bufVars, statVars, winVars, listening, busVars>>

\* Connecting: connection established.
connection_established ==
    /\ connection_state = Connecting
    /\ ~mock
    /\ Feedback(Connected, control_state)
    /\ Quiet

\* Connecting in mock mode: the mock driver stands in for the device.
mock_connected ==
    /\ connection_state = Connecting
    /\ mock
    /\ Feedback(Mock, control_state)
    /\ Quiet

\* Connecting: connection error.
connection_error ==
    /\ connection_state = Connecting
    /\ Feedback(ConnectionFailed, control_state)
    /\ Quiet

\* Connecting: the transport refuses; context("usb_connect\n") raises
\* ConnectionRefusedError into on_button_start_usb, which shows the dialog.
usb_connect_refused ==
    /\ connection_state = Connecting
    /\ attempt = "button"
    /\ Feedback(ConnectionFailed, control_state)
    /\ issued' = <<>>
    /\ reply' = "none"
    /\ caller' = "none"
    /\ was_busy' = (control_state = STATE_BUSY)
    /\ dialog' = TRUE
    /\ raised' = "none"

\* Connecting: the transport driver is not available.
no_backend ==
    /\ connection_state = Connecting
    /\ Feedback(NoBackend, control_state)
    /\ Quiet

\* Disconnecting: teardown complete.
teardown_complete ==
    /\ connection_state = Disconnecting
    /\ Feedback(Disconnected, control_state)
    /\ Quiet

\* Active: a command is being transmitted.
transmit_begin ==
    /\ control_state = STATE_ACTIVE
    /\ connection_state \in {Connected, Mock}
    /\ Feedback(connection_state, STATE_BUSY)
    /\ Quiet

\* Busy: the transmission is over.
transmit_clear ==
    /\ control_state = STATE_BUSY
    /\ Feedback(connection_state, STATE_ACTIVE)
    /\ Quiet

\* Active: the device asks to wait.
device_wait ==
    /\ control_state = STATE_ACTIVE
    /\ Feedback(connection_state, STATE_WAIT)
    /\ Quiet

\* Active: the job is done.
job_end ==
    /\ control_state = STATE_ACTIVE
    /\ Feedback(connection_state, STATE_END)
    /\ Quiet

\* The kernel delivers a "pipe;thread" notification to the window's handler
\* on_control_state: any state, the one handled last included (the kernel
\* signals whenever the controller reports its state).
thread_signal(state) ==
    /\ listening
    /\ LET g == on_control_state([last |-> last_control_state,
                                  text |-> text_controller_status,
                                  button |-> button_controller_control], state)
       IN /\ last_control_state' = g.last
          /\ text_controller_status' = g.text
          /\ button_controller_control' = g.button
    /\ repeat_seen' = (state = last_control_state)
    /\ Quiet
    /\ NoEvents
    /\ UNCHANGED <<button_device_connect, checkbox_mock_usb, resetVars, goVars, nodeVars,
                   bufVars, statVars, ctlVars, winVars, listening, busVars>>

ThreadSignal == \E state \in ControlStates : thread_signal(state)

\* ------------------------------------------------------------ window commands
\* kernel.register("window/...", ...): what context.lookup gives for a window
\* name: a class, the name of another window (an alias), or nothing.
WindowNames == {"BufferView", "Console", "Terminal", "Nowhere"}
Lookup(window) ==
    IF window \in {"BufferView", "Console"} THEN "class"
    ELSE IF window = "Terminal" THEN "Console"
    ELSE "None"

\* The text of the console command.
WindowCommandText(command, window) ==
    IF command = "open"
      THEN CASE window = "BufferView" -> "window open BufferView"
             [] window = "Console" -> "window open Console"
             [] window = "Terminal" -> "window open Terminal"
             [] window = "Nowhere" -> "window open Nowhere"
      ELSE CASE window = "BufferView" -> "window toggle BufferView"
             [] window = "Console" -> "window toggle Console"
             [] window = "Terminal" -> "window toggle Terminal"
             [] window = "Nowhere" -> "window toggle Nowhere"

InitWindows ==
    /\ opened = {}
    /\ call_after = <<>>
    /\ ran_on = "none"

\* The closures window_open / window_close of the command: path.open_as,
\* path.close.
Perform(call, windows) ==
    IF call.op = "open" THEN windows \cup {call.uri} ELSE windows \ {call.uri}

\* if wx.IsMainThread(): call(None) else: wx.CallAfter(call, None)
OnMainThread(call, main) ==
    IF main
      THEN /\ opened' = Perform(call, opened)
           /\ ran_on' = "main"
           /\ UNCHANGED call_after
      ELSE /\ Len(call_after) < MaxPending
           /\ call_after' = Append(call_after, call)
           /\ UNCHANGED <<opened, ran_on>>

\* Mutant of Resolves: every window name is taken to be registered.
Resolves_Anything(command, uri, class) == TRUE

\* The test that lets the command go on: path.lookup(window_uri) is not None
\* for open, window_class is not None for toggle.
Resolves(command, uri, class) ==
    IF command = "open" THEN Lookup(uri) # "None" ELSE class # "None"

\* def window_open(command, channel, _, data, multi=None, window=None, ...):
\* the console commands "window open <window>" and "window toggle <window>",
\* called on the main thread or on another one.
window_command(command, window, main, who) ==
    LET alias == Lookup(window) \notin {"class", "None"}
        uri == IF alias THEN Lookup(window) ELSE window
        class == IF alias THEN Lookup(uri) ELSE Lookup(window)
    IN /\ issued' = <<WindowCommandText(command, window)>>
       /\ caller' = who
       /\ was_busy' = (control_state = STATE_BUSY)
       /\ dialog' = FALSE
       /\ IF Resolves(command, uri, class)
            THEN /\ OnMainThread([op |-> IF command = "toggle" /\ uri \in opened
                                           THEN "close" ELSE "open",
                                  uri |-> uri], main)
                 /\ reply' = "ok"
                 /\ raised' = "none"
            ELSE /\ reply' = "CommandSyntaxError"
                 /\ raised' = "CommandSyntaxError"
                 /\ UNCHANGED winVars
       /\ NoEvents
       /\ Apart
       /\ UNCHANGED <<ctlVars, guiVars, bufVars, statVars, listening, busVars>>

WindowCommand ==
    \E command \in {"open", "toggle"}, window \in WindowNames, main \in BOOLEAN :
        window_command(command, window, main, "console")

\* The text of the console command "window close <window>".
WindowCloseText(window) ==
    CASE window = "BufferView" -> "window close BufferView"
      [] window = "Console" -> "window close Console"
      [] window = "Terminal" -> "window close Terminal"
      [] window = "Nowhere" -> "window close Nowhere"

\* def window_close(channel, _, data, window=None, args=(), **kwargs): the
\* console command "window close <window>".  On the main thread it calls
\* path.close(...).  On another thread it evaluates path.close(...) as the
\* argument of wx.CallAfter, that is at once and on the caller's thread, and
\* hands CallAfter the result, None: CallAfter's assert on its argument fails
\* (AssertionError) unless asserts are compiled out.  The window is looked up
\* under the name given, without resolving an alias; closing a window that is
\* not open is the KeyError the command catches.
window_close_command(window, main, who) ==
    /\ issued' = <<WindowCloseText(window)>>
    /\ caller' = who
    /\ was_busy' = (control_state = STATE_BUSY)
    /\ dialog' = FALSE
    /\ reply' = "ok"
    /\ IF window \in opened
         THEN /\ opened' = Perform([op |-> "close", uri |-> window], opened)
              /\ ran_on' = IF main THEN "main" ELSE "caller"
              /\ raised' \in IF main THEN {"none"} ELSE {"AssertionError", "none"}
              /\ UNCHANGED call_after
         ELSE /\ raised' = "none"
              /\ UNCHANGED winVars
    /\ NoEvents
    /\ Apart
    /\ UNCHANGED <<ctlVars, guiVars, bufVars, statVars, listening, busVars>>

WindowClose ==
    \E window \in WindowNames, main \in BOOLEAN :
        window_close_command(window, main, "console")

\* The main loop runs the oldest call handed to wx.CallAfter.
run_call_after ==
    /\ call_after # <<>>
    /\ opened' = Perform(Head(call_after), opened)
    /\ call_after' = Tail(call_after)
    /\ ran_on' = "main"
    /\ Quiet
    /\ NoEvents
    /\ Apart
    /\ UNCHANGED <<ctlVars, guiVars, bufVars, statVars, listening, busVars>>

\* def on_menu_bufferview(self, event): context("window open BufferView\n").
on_menu_bufferview ==
    /\ listening
    /\ window_command("open", "BufferView", TRUE, "button")

\* --------------------------------------------------------------- the event bus
\* The bus is the kernel's (listen, unlisten, signal); the window's handlers and
\* its subscriptions are the code's.
\* Observers besides the window: one that records what it gets, one whose
\* handler raises on every event.
Monitors == {"monitor", "faulty"}
Handlers == {"window"} \cup Monitors

\* The payloads published in the model: a buffer depth on "pipe;buffer", an
\* int status code on "pipe;status".
Payloads(topic) == IF topic = "pipe;buffer" THEN {0, MaxDepth} ELSE {0}

InitBus ==
    /\ subscribers = [t \in Topics |-> <<>>]
    /\ published = <<>>
    /\ in_publish = FALSE
    /\ pending = <<>>
    /\ delivered = <<>>
    /\ last_received = [h \in Handlers |-> 0]

\* subscribe(topic, handler) of another observer.
subscribe(topic, handler) ==
    /\ ~in_publish
    /\ \A i \in 1..Len(subscribers[topic]) : subscribers[topic][i] # handler
    /\ subscribers' = Listen(subscribers, topic, handler)
    /\ Quiet
    /\ NoEvents
    /\ Apart
    /\ UNCHANGED <<bufVars, statVars, ctlVars, guiVars, winVars, listening,
                   published, in_publish, pending, delivered, last_received>>

\* unsubscribe(topic, handler) of another observer.
unsubscribe(topic, handler) ==
    /\ ~in_publish
    /\ \E i \in 1..Len(subscribers[topic]) : subscribers[topic][i] = handler
    /\ subscribers' = Unlisten(subscribers, topic, handler)
    /\ Quiet
    /\ NoEvents
    /\ Apart
    /\ UNCHANGED <<bufVars, statVars, ctlVars, guiVars, winVars, listening,
                   published, in_publish, pending, delivered, last_received>>

Subscribe == \E t \in Topics, h \in Monitors : subscribe(t, h)
Unsubscribe == \E t \in Topics, h \in Monitors : unsubscribe(t, h)

\* Mutant of Invocations: an event nobody subscribed to goes to the window.
Invocations_Default(topic, id) ==
    IF subscribers[topic] = <<>>
      THEN << [handler |-> "window", id |-> id] >>
      ELSE [i \in 1..Len(subscribers[topic]) |->
               [handler |-> subscribers[topic][i], id |-> id]]

\* The invocations an event asks for: one per subscriber, in subscription order.
Invocations(topic, id) ==
    [i \in 1..Len(subscribers[topic]) |-> [handler |-> subscribers[topic][i], id |-> id]]

\* Mutant of publish: a publish is accepted while another is under way and its
\* invocations are made first.
publish_Reentrant(topic, payload) ==
    /\ Len(published) < MaxEvents
    /\ published' = Append(published, [topic |-> topic, payload |-> payload])
    /\ pending' = Invocations(topic, Len(published) + 1) \o pending
    /\ in_publish' = TRUE
    /\ delivered' = <<>>
    /\ Quiet
    /\ NoEvents
    /\ Apart
    /\ UNCHANGED <<bufVars, statVars, ctlVars, guiVars, winVars, listening,
                   subscribers, last_received>>

\* publish(topic, origin, payload): the call; the handlers are run by deliver
\* and the call returns with publish_return.
publish(topic, payload) ==
    /\ ~in_publish
    /\ Len(published) < MaxEvents
    /\ published' = Append(published, [topic |-> topic, payload |-> payload])
    /\ pending' = Invocations(topic, Len(published) + 1)
    /\ in_publish' = TRUE
    /\ delivered' = <<>>
    /\ Quiet
    /\ NoEvents
    /\ Apart
    /\ UNCHANGED <<bufVars, statVars, ctlVars, guiVars, winVars, listening,
                   subscribers, last_received>>

Publication == \E t \in Topics : \E payload \in Payloads(t) : publish(t, payload)

\* Mutant of Remaining: a handler's error ends the delivery of the event.
Remaining_StopOnError(invocations, error) ==
    IF error # "none" THEN <<>> ELSE Tail(invocations)

\* The invocations left after one was made: a handler's error is isolated.
Remaining(invocations, error) == Tail(invocations)

\* The bus notes an invocation: the handler, the error it raised (logged, not
\* passed on), and that the handler has had the event.
Invoked(h, id, error) ==
    /\ pending' = Remaining(pending, error)
    /\ delivered' = Append(delivered, [handler |-> h, error |-> error])
    /\ last_received' = [last_received EXCEPT ![h] = id]
    /\ UNCHANGED <<subscribers, published, in_publish>>

\* The bus runs the next handler of the publish under way: the window's
\* handler for the topic, or another observer's on_event.
deliver ==
    /\ in_publish
    /\ pending # <<>>
    /\ LET h == Head(pending).handler
           id == Head(pending).id
           event == published[id]
       IN /\ IF h = "window"
               THEN IF event.topic = "pipe;buffer"
                      THEN on_buffer_update(event.payload)
                      ELSE update_status([kind |-> "int", code |-> event.payload,
                                          bytes |-> <<>>], "OK")
               ELSE /\ raised' = IF h = "faulty" THEN "ValueError" ELSE "none"
                    /\ NoEvents
                    /\ Apart
                    /\ UNCHANGED <<bufVars, statVars, ctlVars, guiVars, outVars,
                                   winVars, listening>>
          /\ Invoked(h, id, raised')

\* Mutant of publish_return: publish returns with invocations left to make.
publish_return_Early ==
    /\ in_publish
    /\ in_publish' = FALSE
    /\ raised' = "none"
    /\ NoEvents
    /\ Apart
    /\ UNCHANGED <<bufVars, statVars, ctlVars, guiVars, outVars, winVars, listening,
                   subscribers, published, pending, delivered, last_received>>

\* publish returns to the publisher once no invocation is left; what the
\* handlers raised stays with the bus.
publish_return ==
    /\ in_publish
    /\ pending = <<>>
    /\ in_publish' = FALSE
    /\ raised' = "none"
    /\ NoEvents
    /\ Apart
    /\ UNCHANGED <<bufVars, statVars, ctlVars, guiVars, outVars, winVars, listening,
                   subscribers, published, pending, delivered, last_received>>

\* ------------------------------------------------- the kernel's window sections
InitSections ==
    /\ persistent = {}
    /\ contexts = {}

\* The argument of "window reset": a window name or '*'.
ResetArguments == WindowNames \cup {"*"}

\* The text of the console command "window reset <window>".
WindowResetText(window) ==
    CASE window = "BufferView" -> "window reset BufferView"
      [] window = "Console" -> "window reset Console"
      [] window = "Terminal" -> "window reset Terminal"
      [] window = "Nowhere" -> "window reset Nowhere"
      [] window = "*" -> "window reset *"

\* The kernel keeps a context for the section "window/<window>" once the
\* window has asked for it.
open_context(window) ==
    /\ window \notin contexts
    /\ contexts' = contexts \cup {window}
    /\ Quiet
    /\ NoEvents
    /\ UNCHANGED <<persistent, goVars, nodeVars, repeat_seen, bufVars, statVars, ctlVars, guiVars,
                   winVars, listening, busVars>>

\* The kernel holds persistent settings under "window/<window>": written by
\* the window's context, or kept from an earlier session.
write_persistent(window) ==
    /\ window \notin persistent
    /\ persistent' = persistent \cup {window}
    /\ Quiet
    /\ NoEvents
    /\ UNCHANGED <<contexts, goVars, nodeVars, repeat_seen, bufVars, statVars, ctlVars, guiVars,
                   winVars, listening, busVars>>

\* def window_reset(channel, _, data, window=None, **kwargs): the console
\* command "window reset <window>".  The loop runs over every section that
\* starts with "window/": it clears the section's persistent settings and
\* deletes its context; the argument window is not read.
window_reset(window) ==
    /\ persistent' = {}
    /\ contexts' = {}
    /\ issued' = <<WindowResetText(window)>>
    /\ caller' = "console"
    /\ was_busy' = (control_state = STATE_BUSY)
    /\ reply' = "ok"
    /\ raised' = "none"
    /\ dialog' = FALSE
    /\ NoEvents
    /\ UNCHANGED <<goVars, nodeVars, repeat_seen, bufVars, statVars, ctlVars, guiVars,
                   winVars, listening, busVars>>

OpenContext == \E window \in WindowNames : open_context(window)
WritePersistent == \E window \in WindowNames : write_persistent(window)
WindowReset == \E window \in ResetArguments : window_reset(window)

\* ------------------------------------------------------------------ the Go pane
\* GoPanel.__init__: click_time = 0, was_mouse = False; the button is enabled.
InitGo ==
    /\ was_mouse = FALSE
    /\ click_time = 0
    /\ now = 0
    /\ button_go = TRUE
    /\ spooling = FALSE
    /\ mouse_since_job = FALSE

\* if this_time - self.click_time < 0.5: return; in quarters of a second.
HalfSecond == 2

\* The commands on_button_go_click passes to context(...).
SpoolText == "plan clear copy preprocess validate blob preopt optimize spool; plan clear"

\* Time passes.
tick ==
    /\ now < MaxTime
    /\ now' = now + 1
    /\ Quiet
    /\ NoEvents
    /\ UNCHANGED <<was_mouse, click_time, button_go, spooling, mouse_since_job,
                   resetVars, nodeVars, repeat_seen, bufVars, statVars, ctlVars, guiVars,
                   winVars, listening, busVars>>

\* def on_mouse_down(self, event): was_mouse = True; event.Skip().
on_mouse_down ==
    /\ was_mouse' = TRUE
    /\ mouse_since_job' = TRUE
    /\ Quiet
    /\ NoEvents
    /\ UNCHANGED <<click_time, now, button_go, spooling,
                   resetVars, nodeVars, repeat_seen, bufVars, statVars, ctlVars, guiVars,
                   winVars, listening, busVars>>

\* Mutant of on_button_go_click: the test of was_mouse is missing.
on_button_go_click_AnyClick ==
    /\ was_busy' = (control_state = STATE_BUSY)
    /\ dialog' = FALSE
    /\ raised' = "none"
    /\ caller' = "button"
    /\ IF now - click_time < HalfSecond
         THEN /\ issued' = <<>>
              /\ reply' = "none"
              /\ UNCHANGED goVars
         ELSE IF ~button_go
           THEN /\ issued' = <<>>
                /\ reply' = "none"
                /\ UNCHANGED goVars
           ELSE /\ button_go' = FALSE
                /\ spooling' = TRUE
                /\ issued' = <<SpoolText>>
                /\ reply' = "ok"
                /\ mouse_since_job' = FALSE
                /\ UNCHANGED <<was_mouse, click_time, now>>
    /\ NoEvents
    /\ UNCHANGED <<resetVars, nodeVars, repeat_seen, bufVars, statVars, ctlVars, guiVars,
                   winVars, listening, busVars>>

\* def on_button_go_click(self, event), up to the call of context(...): a
\* click within half a second of the last job, a click without a mouse-down
\* (answered on the console channel) and a click on the disabled button do
\* nothing; any other click disables the button and spools the job.  Events
\* that arrive while the job is processed are handled before spool_done.
on_button_go_click ==
    /\ was_busy' = (control_state = STATE_BUSY)
    /\ dialog' = FALSE
    /\ raised' = "none"
    /\ caller' = "button"
    /\ IF now - click_time < HalfSecond
         THEN /\ issued' = <<>>
              /\ reply' = "none"
              /\ UNCHANGED goVars
         ELSE IF ~was_mouse
           THEN /\ issued' = <<>>
                /\ reply' = "ignored"
                /\ UNCHANGED goVars
           ELSE IF ~button_go
             THEN /\ issued' = <<>>
                  /\ reply' = "none"
                  /\ UNCHANGED goVars
             ELSE /\ button_go' = FALSE
                  /\ spooling' = TRUE
                  /\ issued' = <<SpoolText>>
                  /\ reply' = "ok"
                  /\ mouse_since_job' = FALSE
                  /\ UNCHANGED <<was_mouse, click_time, now>>
    /\ NoEvents
    /\ UNCHANGED <<resetVars, nodeVars, repeat_seen, bufVars, statVars, ctlVars, guiVars,
                   winVars, listening, busVars>>

\* on_button_go_click after context(...) returned: the button is enabled
\* again, click_time = perf_counter(), was_mouse = False.
spool_done ==
    /\ spooling
    /\ spooling' = FALSE
    /\ button_go' = TRUE
    /\ click_time' = now
    /\ was_mouse' = FALSE
    /\ Quiet
    /\ NoEvents
    /\ UNCHANGED <<now, mouse_since_job,
                   resetVars, nodeVars, repeat_seen, bufVars, statVars, ctlVars, guiVars,
                   winVars, listening, busVars>>

\* ---------------------------------------------------------------- the point node
\* PointNode.__init__ and validate(): point (0, 0), the identity matrix, bounds
\* not computed yet, no points.
InitNode ==
    /\ point = <<0, 0>>
    /\ matrix = <<0, 0>>
    /\ bounds_dirty = TRUE
    /\ node_bounds = <<>>
    /\ points = <<>>
    /\ revalidated = FALSE

\* self.matrix.transform_point(self.point) for a matrix that is a translation.
transform_point(m, p) == <<p[1] + m[1], p[2] + m[2]>>

\* The property bounds: computed from the point when _bounds_dirty, else the
\* stored value.
Bounds ==
    IF bounds_dirty
      THEN LET p == transform_point(matrix, point) IN <<p[1], p[2], p[1], p[2]>>
      ELSE node_bounds

\* def preprocess(self, context, matrix, commands): self.matrix *= matrix,
\* _bounds_dirty = True.
preprocess(m) ==
    /\ matrix[1] + m[1] <= MaxCoord
    /\ matrix[2] + m[2] <= MaxCoord
    /\ matrix' = <<matrix[1] + m[1], matrix[2] + m[2]>>
    /\ bounds_dirty' = TRUE
    /\ revalidated' = FALSE
    /\ Quiet
    /\ NoEvents
    /\ UNCHANGED <<point, node_bounds, points, resetVars, goVars, repeat_seen,
                   bufVars, statVars, ctlVars, guiVars, winVars, listening, busVars>>

Preprocess == \E m \in {<<1, 0>>, <<0, 1>>} : preprocess(m)

\* The nine entries revalidate_points writes at the indices 0 .. 8 (here 1 .. 9).
BoundsEntry(i, b) ==
    LET cx == (b[1] + b[3]) \div 2
        cy == (b[2] + b[4]) \div 2
    IN CASE i = 1 -> [x |-> b[1], y |-> b[2], kind |-> "bounds top_left"]
         [] i = 2 -> [x |-> b[3], y |-> b[2], kind |-> "bounds top_right"]
         [] i = 3 -> [x |-> b[1], y |-> b[4], kind |-> "bounds bottom_left"]
         [] i = 4 -> [x |-> b[3], y |-> b[4], kind |-> "bounds bottom_right"]
         [] i = 5 -> [x |-> cx, y |-> cy, kind |-> "bounds center_center"]
         [] i = 6 -> [x |-> cx, y |-> b[2], kind |-> "bounds top_center"]
         [] i = 7 -> [x |-> cx, y |-> b[4], kind |-> "bounds bottom_center"]
         [] i = 8 -> [x |-> b[1], y |-> cy, kind |-> "bounds center_left"]
         [] i = 9 -> [x |-> b[3], y |-> cy, kind |-> "bounds center_right"]

\* _points after revalidate_points: the list is extended to nine entries if
\* shorter, the entries 0 .. 8 are assigned, and the point's entry is appended.
Revalidated(old, b, p) ==
    [i \in 1..(Max(Len(old), 9) + 1) |->
        IF i <= 9 THEN BoundsEntry(i, b)
        ELSE IF i <= Len(old) THEN old[i]
        ELSE [x |-> p[1], y |-> p[2], kind |-> "point"]]

\* def revalidate_points(self).
revalidate_points ==
    /\ Len(points) < 9 + MaxCalls
    /\ node_bounds' = Bounds
    /\ bounds_dirty' = FALSE
    /\ points' = Revalidated(points, Bounds, point)
    /\ revalidated' = TRUE
    /\ Quiet
    /\ NoEvents
    /\ UNCHANGED <<point, matrix, resetVars, goVars, repeat_seen,
                   bufVars, statVars, ctlVars, guiVars, winVars, listening, busVars>>

\* ------------------------------------------------------------ specifications
Init ==
    /\ InitBuffer
    /\ InitStats
    /\ InitController
    /\ InitGui
    /\ InitWindows
    /\ issued = <<>>
    /\ reply = "none"
    /\ caller = "none"
    /\ thread_events = <<>>
    /\ InitBus
    /\ was_busy = FALSE
    /\ dialog = FALSE
    /\ listening = FALSE
    /\ raised = "none"
    /\ InitSections
    /\ InitGo
    /\ InitNode
    /\ repeat_seen = FALSE


NextBuffer ==
    \/ window_open
    \/ window_close
    \/ BufferEvent

SpecBuffer == Init /\ [][NextBuffer]_vars

NextStats ==
    \/ window_open
    \/ window_close
    \/ record_sent
    \/ record_rejected
    \/ StatusEvent

SpecStats == Init /\ [][NextStats]_vars

NextController ==
    \/ window_open
    \/ window_close
    \/ on_button_start_usb
    \/ controller_button_click
    \/ on_menu_pause
    \/ on_menu_stop
    \/ panel_stop
    \/ panel_pause
    \/ on_check_mock_usb
    \/ ConsoleCommand
    \/ connection_established
    \/ mock_connected
    \/ connection_error
    \/ usb_connect_refused
    \/ no_backend
    \/ teardown_complete
    \/ transmit_begin
    \/ transmit_clear
    \/ device_wait
    \/ job_end

SpecController == Init /\ [][NextController]_vars

NextWindows ==
    \/ window_open
    \/ window_close
    \/ WindowCommand
    \/ WindowClose
    \/ run_call_after
    \/ on_menu_bufferview
    \/ dispatch_unknown
    \/ ConsoleCommand
    \/ connection_established
    \/ mock_connected
    \/ teardown_complete

SpecWindows == Init /\ [][NextWindows]_vars

NextBus ==
    \/ window_open
    \/ window_close
    \/ Subscribe
    \/ Unsubscribe
    \/ Publication
    \/ deliver
    \/ publish_return

SpecBus == Init /\ [][NextBus]_vars

\* The controller with its counters, the window's handlers and its connect
\* button: who writes what.
NextOwner ==
    \/ window_open
    \/ window_close
    \/ BufferEvent
    \/ record_sent
    \/ record_rejected
    \/ on_button_start_usb
    \/ on_menu_stop
    \/ on_check_mock_usb
    \/ connection_established
    \/ mock_connected
    \/ teardown_complete

SpecOwner == Init /\ [][NextOwner]_vars

\* The kernel's window sections and the command that resets them.
NextReset ==
    \/ OpenContext
    \/ WritePersistent
    \/ WindowReset

SpecReset == Init /\ [][NextReset]_vars

\* The window and the control-state notifications it gets.
NextNotify ==
    \/ window_open
    \/ window_close
    \/ ThreadSignal

SpecNotify == Init /\ [][NextNotify]_vars

\* The Go pane.
NextGo ==
    \/ tick
    \/ on_mouse_down
    \/ on_button_go_click
    \/ spool_done

SpecGo == Init /\ [][NextGo]_vars

\* The connection lifecycle with a device behind the transport: the operator's
\* connect and disconnect requests and the hardware feedback, which is
\* delivered fairly (the hardware thread runs until the attempt or the
\* teardown has an outcome).
ConsoleConnect ==
    \E cmd \in {"usb_connect", "usb_disconnect"} : console_command(cmd)

AttemptOutcome ==
    \/ connection_established
    \/ connection_error
    \/ usb_connect_refused
    \/ no_backend

NextLive ==
    \/ window_open
    \/ window_close
    \/ on_button_start_usb
    \/ ConsoleConnect
    \/ AttemptOutcome
    \/ teardown_complete

SpecLive ==
    /\ Init
    /\ [][NextLive]_vars
    /\ WF_vars(AttemptOutcome)
    /\ WF_vars(teardown_complete)

\* The point node.
NextNode ==
    \/ Preprocess
    \/ revalidate_points

SpecNode == Init /\ [][NextNode]_vars

\* ------------------------------------------------------------------- claims

\* C1: over any sequence of buffer events the tracked maximum buffer_max never
\* decreases from one step to the next.
C1_MaxNeverDecreases == [][buffer_max' >= buffer_max]_vars

\* A smaller depth arrived after the maximum had been raised above its start.
C1_Witness ==
    /\ buffer_updated
    /\ buffer_max > InitBufferMax
    /\ buffer_value < buffer_max
    /\ raised = "AttributeError"

C3_DepthStoredBelowMax ==
    buffer_updated =>
        /\ text_buffer_length = Str(buffer_value)
        /\ buffer_value <= buffer_max

\* C4: the counters shown after update_status are the number of record_sent and
\* of record_rejected calls, and each of the two operations leaves the other
\* counter unchanged.
C4_CountsMatchCalls ==
    /\ [](status_shown =>
            /\ packet_count_text = Str(sent_calls)
            /\ rejected_packet_count_text = Str(rejected_calls))
    /\ [][/\ sent_calls' # sent_calls => rejected_count' = rejected_count
          /\ rejected_calls' # rejected_calls => packet_count' = packet_count]_vars

\* Ten packets sent, two rejected, and the window shows the counters.
C4_Witness ==
    /\ status_shown
    /\ sent_calls = 10
    /\ rejected_calls = 2
    /\ packet_count_text = <<1, 0>>
    /\ rejected_packet_count_text = <<2>>

\* The connection states a connect request starts an attempt from.
Connectable == {Uninitialized, Disconnected, ConnectionFailed}

\* C5: estop / abort is accepted in every ControlState, Busy included: issued
\* while Busy it moves the controller out of Busy, and the window's Stop
\* command stays available while Busy; pause, resume, connect and disconnect
\* issued while Busy cause no transition.
C5_EstopPreemptsBusy ==
    /\ [](listening => ENABLED on_menu_stop)
    /\ [][control_state = STATE_BUSY =>
            /\ issued' \in {<<"estop">>, <<"abort">>} => control_state' # STATE_BUSY
            /\ issued' \in {<<"pause">>, <<"resume">>, <<"usb_connect">>,
                            <<"usb_disconnect">>}
                 => /\ control_state' = control_state
                    /\ connection_state' = connection_state]_vars

\* The Stop menu was used while the window showed the busy lock, and the
\* controller left Busy.
C5_Witness ==
    /\ was_busy
    /\ issued = <<"estop">>
    /\ caller = "button"
    /\ reply = "ok"
    /\ listening
    /\ control_state \in {STATE_TERMINATE, STATE_IDLE}
    /\ last_control_state = control_state

\* C6: while ControlState is Busy a connect, disconnect or pause request is
\* rejected: it changes no state, it is answered "ignored" and raises nothing,
\* nothing of it is left to take effect when Busy clears, and the window locks
\* its controller button for as long as it shows Busy.
C6_BusyRejects ==
    /\ [](listening /\ last_control_state = STATE_BUSY =>
            /\ ~button_controller_control.enabled
            /\ button_controller_control.label = "LOCKED")
    /\ [][control_state = STATE_BUSY =>
            /\ issued' \in {<<"usb_connect">>, <<"usb_disconnect">>, <<"pause">>}
                 => /\ control_state' = control_state
                    /\ connection_state' = connection_state
                    /\ attempt' = attempt
                    /\ last_signal_state' = last_signal_state
                    /\ reply' = "ignored"
                    /\ raised' = "none"
            /\ issued' = <<>> /\ control_state' # STATE_BUSY
                 => /\ control_state' = STATE_ACTIVE
                    /\ connection_state' = connection_state]_vars

\* A pause was ignored while the window showed the busy lock.
C6_Witness ==
    /\ was_busy
    /\ control_state = STATE_BUSY
    /\ listening
    /\ last_control_state = STATE_BUSY
    /\ issued = <<"pause">>
    /\ reply = "ignored"

\* C7: from Uninitialized a connect leads to Connecting, which ends in
\* Connected (Mock in mock mode) or in a failure state, and Connected is
\* entered from Connecting only; Connected is left for Disconnecting only and
\* Disconnected is entered from Disconnecting only, and a listening window
\* showing "Disconnect" shows "Disconnecting..." before anything else.
C7_ConnectDisconnectPath ==
    [][/\ connection_state = Uninitialized /\ issued' = <<"usb_connect">>
            => connection_state' = Connecting
       /\ connection_state' = Connected /\ connection_state # Connected
            => connection_state = Connecting
       /\ connection_state = Connecting
            => connection_state' \in {Connecting, Connected, Mock,
                                      ConnectionFailed, NoBackend}
       /\ connection_state = Connected
            => connection_state' \in {Connected, Disconnecting}
       /\ connection_state' = Disconnected /\ connection_state # Disconnected
            => connection_state = Disconnecting
       /\ listening /\ listening' /\ button_device_connect.label = "Disconnect"
            => button_device_connect'.label \in {"Disconnect", "Disconnecting..."}]_vars

\* The window watched the whole scenario and is back at "Connect".
C7_Witness ==
    /\ connection_state = Disconnected
    /\ last_signal_state = Disconnected
    /\ listening
    /\ button_device_connect = [label |-> "Connect", enabled |-> TRUE]
    /\ ~mock

\* C8 (as claimed): a connect request moves the connection state to Connecting
\* exactly when the state is Uninitialized, Disconnected or ConnectionFailed;
\* in every other state the window issues no connect request and a connect
\* request causes no transition.
C8_ConnectOnlyFromConnectable ==
    [][/\ issued' = <<"usb_connect">> /\ connection_state \in Connectable
            => connection_state' = Connecting
       /\ issued' = <<"usb_connect">> /\ connection_state \notin Connectable
            => connection_state' = connection_state
       /\ caller' = "button" /\ connection_state \notin Connectable
            => issued' # <<"usb_connect">>]_vars

\* C8 (amended): the same, but the connect button issues a connect request in
\* the Mock state too (where it causes no transition); it issues none in
\* Connecting, Connected, Disconnecting and NoBackend.
C8_ConnectFromConnectableOrMock ==
    [][/\ issued' = <<"usb_connect">> /\ connection_state \in Connectable
            => connection_state' = Connecting
       /\ issued' = <<"usb_connect">> /\ connection_state \notin Connectable
            => connection_state' = connection_state
       /\ caller' = "button" /\ connection_state \notin Connectable \cup {Mock}
            => issued' # <<"usb_connect">>]_vars

\* The connect button was clicked in the Mock state and issued usb_connect.
C8_Witness ==
    /\ connection_state = Mock
    /\ caller = "button"
    /\ issued = <<"usb_connect">>
    /\ reply = "noop"

\* C9: NoBackend is not left without an operator command, and the connect
\* button issues no connect request from it; in ConnectionFailed the button the
\* window shows is enabled and issues a connect request that starts an attempt.
C9_NoBackendNotRetried ==
    /\ [](listening /\ connection_state = ConnectionFailed
            /\ button_device_connect.label = "usb_status"
            => /\ button_device_connect.enabled
               /\ ConnectCommands(last_signal_state) = <<"usb_connect">>)
    /\ [][/\ connection_state = NoBackend /\ caller' = "none"
               => connection_state' = NoBackend
          /\ connection_state = NoBackend /\ caller' = "button"
               => /\ issued' # <<"usb_connect">>
                  /\ connection_state' = NoBackend
          /\ connection_state = ConnectionFailed /\ caller' = "button"
               /\ issued' = <<"usb_connect">>
               => connection_state' = Connecting]_vars

\* The enabled connect button was clicked in NoBackend and issued nothing.
C9_Witness ==
    /\ connection_state = NoBackend
    /\ listening
    /\ button_device_connect = [label |-> "usb_status", enabled |-> TRUE]
    /\ caller = "button"
    /\ issued = <<>>
    /\ control_state = STATE_INITIALIZE

\* Command texts the dispatcher cannot resolve.
Unresolvable == {"unknown_cmd", "window open Nowhere", "window toggle Nowhere"}

\* C10: dispatching an unknown or unresolvable command raises
\* CommandSyntaxError in the same step and leaves ConnectionState,
\* ControlState, the opened windows and the deferred window calls unchanged.
C10_UnknownCommandRejected ==
    [][issued' # <<>> /\ issued'[1] \in Unresolvable
         => /\ raised' = "CommandSyntaxError"
            /\ connection_state' = connection_state
            /\ control_state' = control_state
            /\ last_signal_state' = last_signal_state
            /\ opened' = opened
            /\ call_after' = call_after]_vars

\* "window open Nowhere" was rejected with a window open and a connection up.
C10_Witness ==
    /\ raised = "CommandSyntaxError"
    /\ issued = <<"window open Nowhere">>
    /\ connection_state = Connected
    /\ opened # {}

\* C11: a known command that does not apply to the current state (pause or
\* estop with no active controller; a command the transition table has no row
\* for in the current state, such as pause while Disconnected and not Active)
\* is a no-op: it is acknowledged, nothing is raised to the caller, and
\* ConnectionState and ControlState are unchanged.
C11_InapplicableIsNoop ==
    [][/\ Len(issued') = 1
       /\ issued'[1] \in ControllerCommands
       /\ \/ ~active
          \/ /\ control_state # STATE_BUSY
             /\ Outcomes(connection_state, control_state, issued'[1])
                    = {<<connection_state, control_state>>}
       => /\ raised' = "none"
          /\ reply' = "noop"
          /\ connection_state' = connection_state
          /\ control_state' = control_state
          /\ last_signal_state' = last_signal_state]_vars

\* C12: a request into the ControlState the controller is already in publishes
\* no control-state event, and every control-state event carries a state that
\* differs from the one published before it (from the initial state for the
\* first event).
C12_NoDuplicateControlEvents ==
    [][/\ \A i \in 1..Len(thread_events') :
              thread_events'[i] # (IF i = 1 THEN control_state ELSE thread_events'[i - 1])
       /\ thread_events' # <<>> /\ last_signal_thread # "None"
            => thread_events'[1] # last_signal_thread
       /\ Len(issued') = 1 /\ control_state' = control_state
            => thread_events' = <<>> /\ last_signal_thread' = last_signal_thread]_vars

\* A hold was requested while the controller was already in Pause, after the
\* Pause event had been published: nothing was published for it.
C12_Witness ==
    /\ issued = <<"hold">>
    /\ reply = "noop"
    /\ control_state = STATE_PAUSE
    /\ last_signal_thread = STATE_PAUSE
    /\ thread_events = <<>>
    /\ listening
    /\ last_control_state = STATE_PAUSE

\* C13: every ConnectionState or ControlState transition publishes the new
\* state, so the value last published on "pipe;state" / "pipe;thread" is the
\* controller's current state (nothing is published before the first
\* transition), and the connect button, which reads last_signal, acts on the
\* current state.
C13_LastSignalIsCurrentState ==
    /\ [](/\ last_signal_state \in {"None", connection_state}
          /\ last_signal_state = "None" => connection_state = Uninitialized
          /\ last_signal_thread \in {"None", control_state}
          /\ last_signal_thread = "None" => control_state = STATE_INITIALIZE)
    /\ [][/\ connection_state' # connection_state
               => last_signal_state' = connection_state'
          /\ control_state' # control_state
               => /\ last_signal_thread' = control_state'
                  /\ thread_events' # <<>>
                  /\ thread_events'[Len(thread_events')] = control_state'
          /\ caller' = "button" /\ issued' \in {<<"usb_connect">>, <<"usb_disconnect">>}
               => issued' = ConnectCommands(connection_state)]_vars

\* The connect button read the published state and asked to disconnect; both
\* topics carry the controller's current state.
C13_Witness ==
    /\ caller = "button"
    /\ issued = <<"usb_disconnect">>
    /\ connection_state = Disconnecting
    /\ last_signal_state = Disconnecting
    /\ control_state # STATE_INITIALIZE
    /\ last_signal_thread = control_state

\* The handlers of a sequence of invocations.
HandlersOf(invocations) == [i \in 1..Len(invocations) |-> invocations[i].handler]

\* The topic of the event published last.
LastTopic == published[Len(published)].topic

\* C14: when a handler raises during publish the handlers subscribed after it
\* are still to be run for that event, publish does not return before they
\* ran, and nothing is raised to the publisher.
C14_HandlerErrorIsolated ==
    [][/\ in_publish /\ Len(delivered') > Len(delivered)
            /\ delivered'[Len(delivered')].error # "none"
            => /\ pending' = Tail(pending)
               /\ in_publish'
       /\ in_publish /\ ~in_publish'
            => /\ raised' = "none"
               /\ HandlersOf(delivered) = subscribers[LastTopic]]_vars

\* The window's on_buffer_update raised AttributeError, the observer
\* subscribed after it ran all the same, and publish returned without error.
C14_Witness ==
    /\ ~in_publish
    /\ delivered = << [handler |-> "window", error |-> "AttributeError"],
                      [handler |-> "monitor", error |-> "none"] >>
    /\ raised = "none"
    /\ last_received["monitor"] = Len(published)

\* C15: for one published event the handlers are invoked in the order in
\* which they were subscribed, and a handler that is not subscribed (the
\* window's after window_close) is not invoked.
C15_SubscriptionOrder ==
    in_publish =>
        /\ HandlersOf(delivered) \o HandlersOf(pending) = subscribers[LastTopic]
        /\ ~listening => \A i \in 1..Len(pending) : pending[i].handler # "window"

\* Two events on one topic: the first went to the faulty observer, which was
\* unsubscribed before the second; the second went to the observer subscribed
\* first and then to the window.
C15_Witness ==
    /\ in_publish
    /\ pending = <<>>
    /\ Len(published) = 2
    /\ published[1].topic = published[2].topic
    /\ last_received["faulty"] = 1
    /\ HandlersOf(delivered) = <<"monitor", "window">>

\* C16: every handler is invoked for the events in the order they were
\* published: the number of the event a handler is invoked for never drops.
C16_PublishOrder ==
    [][\A h \in Handlers : last_received'[h] >= last_received[h]]_vars

\* Depth MaxDepth and then depth 0 were published on "pipe;buffer"; the window
\* got both, in that order: it kept the maximum of the first, then saw the second.
C16_Witness ==
    /\ Len(published) = 2
    /\ published[1] = [topic |-> "pipe;buffer", payload |-> MaxDepth]
    /\ published[2] = [topic |-> "pipe;buffer", payload |-> 0]
    /\ last_received["window"] = 2
    /\ buffer_max = MaxDepth
    /\ buffer_value = 0

\* C17: publish is synchronous: when it returns every handler subscribed at
\* the call has been invoked for the event, and no other event is published
\* before it returns.
C17_PublishSynchronous ==
    [][/\ in_publish /\ ~in_publish'
            => /\ pending = <<>>
               /\ Len(delivered) = Len(subscribers[LastTopic])
               /\ \A i \in 1..Len(subscribers[LastTopic]) :
                      last_received[subscribers[LastTopic][i]] = Len(published)
       /\ Len(published') > Len(published) => ~in_publish]_vars

\* publish returned after all three handlers of the topic had run.
C17_Witness ==
    /\ ~in_publish
    /\ Len(delivered) = 3
    /\ \A h \in Handlers : last_received[h] = Len(published)

\* C18: publishing to a topic with no subscriber raises nothing, invokes no
\* handler and changes neither the controller's state nor the tracker's.
C18_NoSubscriberNoop ==
    [][/\ Len(published') > Len(published)
       /\ subscribers[published'[Len(published')].topic] = <<>>
       => /\ pending' = <<>>
          /\ raised' = "none"
          /\ last_received' = last_received
          /\ UNCHANGED <<connection_state, control_state, packet_count,
                         rejected_count, buffer_max, buffer_value>>]_vars

\* An event was published on a topic nobody listens to while the other topic
\* has subscribers; publish returned and no handler was invoked.
C18_Witness ==
    /\ ~in_publish
    /\ published # <<>>
    /\ subscribers[LastTopic] = <<>>
    /\ \E t \in Topics : subscribers[t] # <<>>
    /\ delivered = <<>>
    /\ raised = "none"
    /\ \A h \in Handlers : last_received[h] = 0

\* The steps of the window's handlers that pass no command on.
HandlerStep ==
    \/ window_open
    \/ window_close
    \/ BufferEvent
    \/ StatusEvent
    \/ on_check_mock_usb

\* What a step that submits commands may do to the controller's state: what
\* the controller makes of the commands.
Applied ==
    \E run \in Runs(connection_state, control_state, issued') :
        run[Len(run)] = <<connection_state', control_state'>>

\* C19 (as claimed): ConnectionState, ControlState and PacketStats (the two
\* counters and the tracked buffer maximum) are written by the controller
\* only: no handler of the window changes them, and a UI action changes the
\* state only by the command it submits.
C19_ControllerSoleWriter ==
    [][/\ HandlerStep
            => UNCHANGED <<connection_state, control_state, packet_count,
                           rejected_count, buffer_max>>
       /\ caller' = "button" => IF issued' = <<>>
                                  THEN UNCHANGED <<connection_state, control_state>>
                                  ELSE Applied
       /\ packet_count' # packet_count \/ rejected_count' # rejected_count
            => record_sent \/ record_rejected]_vars

\* C19 (amended): the same for ConnectionState, ControlState and the two
\* counters; the tracked buffer maximum is written by the window's handler
\* on_buffer_update and by nothing else.
C19_ControllerWritesStateAndCounters ==
    [][/\ HandlerStep
            => UNCHANGED <<connection_state, control_state, packet_count,
                           rejected_count>>
       /\ caller' = "button" => IF issued' = <<>>
                                  THEN UNCHANGED <<connection_state, control_state>>
                                  ELSE Applied
       /\ packet_count' # packet_count \/ rejected_count' # rejected_count
            => record_sent \/ record_rejected
       /\ buffer_max' # buffer_max => BufferEvent]_vars

\* The connect button submitted usb_connect and the controller went to
\* Connecting, after the controller had counted packets and the window's
\* handler had raised the buffer maximum.
C19_Witness ==
    /\ caller = "button"
    /\ issued = <<"usb_connect">>
    /\ connection_state = Connecting
    /\ packet_count > 0
    /\ rejected_count > 0
    /\ buffer_max > InitBufferMax

\* C20: a window operation (open_as / close) asked for by the window open,
\* toggle and close commands from a thread other than the main thread never
\* runs on that thread; it is deferred to the main thread.
C20_WindowOperationOnMainThread == ran_on # "caller"

\* C21: a connect attempt the transport refuses ends the attempt: the
\* controller leaves Connecting for ConnectionFailed, the refusal is shown to
\* the operator (the "Connection Refused" dialog) and nothing is raised, the
\* connect button of a listening window is enabled and asks for a connect, and
\* a connect issued in ConnectionFailed starts a new attempt.
C21_RefusalLeavesRetryable ==
    /\ [](dialog =>
            /\ connection_state = ConnectionFailed
            /\ last_signal_state = ConnectionFailed
            /\ raised = "none"
            /\ listening => /\ button_device_connect.enabled
                            /\ ConnectCommands(last_signal_state) = <<"usb_connect">>)
    /\ [][/\ dialog' => connection_state = Connecting
          /\ connection_state = ConnectionFailed /\ issued' = <<"usb_connect">>
               => /\ connection_state' = Connecting
                  /\ reply' = "ok"]_vars

\* The transport refused the attempt the connect button had started; the
\* dialog is up and the listening window offers the connect again.
C21_Witness ==
    /\ dialog
    /\ connection_state = ConnectionFailed
    /\ listening
    /\ button_device_connect = [label |-> "usb_status", enabled |-> TRUE]
    /\ ConnectCommands(last_signal_state) = <<"usb_connect">>

\* C22 (as claimed): hold and resume are inverse: a hold / pause request that
\* finds the controller Active leads to Pause and a resume that finds it in
\* Pause leads to Active; the controller button offers resume only while the
\* state is Pause and hold only while it is Active.
C22_HoldOnlyWhileActive ==
    [][/\ control_state = STATE_ACTIVE /\ issued' \in {<<"hold">>, <<"pause">>}
            => control_state' = STATE_PAUSE
       /\ control_state = STATE_PAUSE /\ issued' = <<"resume">>
            => control_state' = STATE_ACTIVE
       /\ caller' = "button"
            => \A i \in 1..Len(issued') :
                 /\ issued'[i] = "resume" => control_state = STATE_PAUSE
                 /\ issued'[i] = "hold" => control_state = STATE_ACTIVE]_vars

\* C22 (amended): the same, but the button also offers a hold in Initialize,
\* End and Idle, as the second command of the click that starts the
\* controller: every hold the button issues finds the controller Active, at
\* the click or because the start of the same click has just made it so.
C22_HoldResumeInverse ==
    [][/\ control_state = STATE_ACTIVE /\ issued' \in {<<"hold">>, <<"pause">>}
            => control_state' = STATE_PAUSE
       /\ control_state = STATE_PAUSE /\ issued' = <<"resume">>
            => control_state' = STATE_ACTIVE
       /\ caller' = "button"
            => \A i \in 1..Len(issued') :
                 /\ issued'[i] = "resume"
                      => /\ Len(issued') = 1
                         /\ control_state = STATE_PAUSE
                         /\ button_controller_control.label = "Resume Controller"
                 /\ issued'[i] = "hold"
                      => \/ /\ Len(issued') = 1
                            /\ control_state = STATE_ACTIVE
                            /\ button_controller_control.label = "Pause Controller"
                         \/ /\ i = 2
                            /\ issued'[1] = "start"
                            /\ thread_events' # <<>>
                            /\ thread_events'[1] = STATE_ACTIVE]_vars

\* The controller button resumed a paused controller: it is Active again and
\* the button offers the hold.
C22_Witness ==
    /\ caller = "button"
    /\ issued = <<"resume">>
    /\ control_state = STATE_ACTIVE
    /\ thread_events = <<STATE_ACTIVE>>
    /\ listening
    /\ button_controller_control =
           [label |-> "Pause Controller", enabled |-> TRUE, action |-> "hold"]

\* C23: "window reset <name>" with the name of a window resets that window
\* only: the persistent settings and the open context of every other window
\* are as they were.
C23_ResetOnlySupplied ==
    [][\A window \in WindowNames :
          issued' = <<WindowResetText(window)>>
            => \A other \in WindowNames \ {window} :
                 /\ other \in persistent' <=> other \in persistent
                 /\ other \in contexts' <=> other \in contexts]_vars

\* C24: a control-state notification that carries the state the window
\* handled last changes nothing in the window: last_control_state, the status
\* text and the controller button (label, enabled flag, bound action) stay.
C24_RepeatedNotificationIsNoop ==
    [][\A state \in ControlStates :
          thread_signal(state) /\ state = last_control_state
            => UNCHANGED <<last_control_state, text_controller_status,
                           button_controller_control, button_device_connect>>]_vars

\* Busy was notified twice in a row after Active; the button stays locked and
\* keeps the function Active had bound.
C24_Witness ==
    /\ repeat_seen
    /\ listening
    /\ last_control_state = STATE_BUSY
    /\ text_controller_status = STATE_BUSY
    /\ button_controller_control =
           [label |-> "LOCKED", enabled |-> FALSE, action |-> "hold"]

\* C25: the Go button spools a job only on a click that a mouse-down preceded
\* since the last job was spooled; a click without one spools nothing, and
\* was_mouse is cleared when a job is done, so no two jobs share a mouse-down.
C25_SpoolNeedsMouseDown ==
    [][/\ issued' = <<SpoolText>> => /\ was_mouse
                                     /\ mouse_since_job
       /\ ~mouse_since_job /\ caller' = "button" => /\ issued' = <<>>
                                                    /\ spooling' = spooling
       /\ spooling /\ ~spooling' => ~was_mouse']_vars

\* A second job was refused: after the first job was done, more than half a
\* second passed and a click arrived with no mouse-down before it.
C25_Witness ==
    /\ caller = "button"
    /\ issued = <<>>
    /\ reply = "ignored"
    /\ click_time > 0
    /\ now - click_time >= HalfSecond
    /\ ~was_mouse
    /\ ~mouse_since_job

\* The control states in which on_control_state binds the start-and-hold click.
Startable == {STATE_INITIALIZE, STATE_END, STATE_IDLE}

UsbCommands == {"usb_connect", "usb_disconnect"}

\* C27: a listening window notified of Connecting or Disconnecting disables
\* its connect button and keeps it disabled while the state stays; with one of
\* the two as the last notified state a click issues neither usb_connect nor
\* usb_disconnect; a click issues at most one of the two in any state, and
\* usb_disconnect only when the state is Connected.
C27_NoConnectWhileTransient ==
    [][/\ /\ listening /\ listening'
          /\ connection_state' # connection_state
          /\ connection_state' \in {Connecting, Disconnecting}
          => ~button_device_connect'.enabled
       /\ /\ listening /\ listening'
          /\ connection_state' = connection_state
          /\ ~button_device_connect.enabled
          => ~button_device_connect'.enabled
       /\ caller' = "button" /\ last_signal_state \in {Connecting, Disconnecting}
            => \A i \in 1..Len(issued') : issued'[i] \notin UsbCommands
       /\ caller' = "button"
            => Cardinality({i \in 1..Len(issued') : issued'[i] \in UsbCommands}) <= 1
       /\ caller' = "button" /\ issued' # <<>> /\ issued'[1] = "usb_disconnect"
            => /\ last_signal_state = Connected
               /\ connection_state = Connected]_vars

\* The connect button issued usb_disconnect in Connected; the controller is
\* Disconnecting and the button is disabled.
C27_Witness ==
    /\ caller = "button"
    /\ issued = <<"usb_disconnect">>
    /\ connection_state = Disconnecting
    /\ last_signal_state = Disconnecting
    /\ listening
    /\ button_device_connect = [label |-> "Disconnecting...", enabled |-> FALSE]

C29_BufferEventHandled ==
    [][BufferEvent =>
         IF gui_update
           THEN /\ raised' = "none"
                /\ buffer_max' = RaiseMax(buffer_max, buffer_value')
                /\ text_buffer_length' = Str(buffer_value')
           ELSE /\ raised' = "none"
                /\ UNCHANGED <<buffer_max, text_buffer_length, gauge_buffer>>]_vars

\* C30: revalidate_points is idempotent: called again with the bounds and the
\* point unchanged it leaves _points as the call before left them, nine
\* bounds entries and one "point" entry.
C30_RevalidateIdempotent ==
    [][revalidated /\ revalidate_points
         => /\ points' = points
            /\ Len(points') = 10
            /\ points'[10].kind = "point"]_vars

====
